---------------------------- MODULE Spec2Model ----------------------------
(***************************************************************************)
(* Model of MyGraph (src/optimalteatype.py): the typed tea graph built by  *)
(* build_graph and the queries that read it.                               *)
(*                                                                         *)
(* A Python str is a sequence of one-character strings, so that strip(),   *)
(* lower(), split(",") and the `in` substring test are computed and not    *)
(* assumed.  A Python dict is a function whose DOMAIN is its key set; an   *)
(* insertion-ordered dict whose order matters (the graph's nodes, a        *)
(* node's neighbours, the catalog) is a sequence.                          *)
(***************************************************************************)
EXTENDS Naturals, Sequences, FiniteSets, TLC

VARIABLES data, benefit_data, G, pc, loop, round, G1, res

vars == <<data, benefit_data, G, pc, loop, round, G1, res>>

---------------------------------------------------------------------------
(* Bounds of the explored inputs *)

MaxCategories == 2
MaxTeasPerCategory == 1
MaxRows == 2
MaxConcerns == 2
MaxResultsBound == 2
MaxTeaOptions == 1

---------------------------------------------------------------------------
(* Python values *)

None == <<"None">>

TypeCategory == <<"category">>

TypeTea == <<"tea">>

TypeTaste == <<"taste">>

TypeHealth == <<"health">>

NA == <<"N", "/", "A">>

Unknown == <<"Unknown">>

AttributeNotFound == <<"Attribute not found">>

NodeNotFound == <<"Node not found">>

EmptyDict == [k \in {} |-> None]

Range(s) == {s[i] : i \in 1..Len(s)}

\* bool(x) for a str or None
Truthy(x) == x # None /\ x # <<>>

\* d.get(k, default)
Get(d, k, default) == IF k \in DOMAIN d THEN d[k] ELSE default

LowerChar(c) ==
    CASE c = "A" -> "a"
      [] c = "B" -> "b"
      [] c = "D" -> "d"
      [] c = "N" -> "n"
      [] OTHER -> c

\* str.lower()
Lower(s) == [i \in 1..Len(s) |-> LowerChar(s[i])]

RECURSIVE LStrip(_)
LStrip(s) == IF s # <<>> /\ Head(s) = " " THEN LStrip(Tail(s)) ELSE s

RECURSIVE RStrip(_)
RStrip(s) ==
    IF s # <<>> /\ s[Len(s)] = " " THEN RStrip(SubSeq(s, 1, Len(s) - 1)) ELSE s

\* str.strip()
Strip(s) == RStrip(LStrip(s))

\* str.split(","): the pieces between commas, empty pieces included
RECURSIVE Split(_)
Split(s) ==
    IF \E i \in 1..Len(s) : s[i] = ","
    THEN LET i == CHOOSE j \in 1..Len(s) :
                      s[j] = "," /\ \A k \in 1..(j - 1) : s[k] # ","
         IN  <<SubSeq(s, 1, i - 1)>> \o Split(SubSeq(s, i + 1, Len(s)))
    ELSE <<s>>

\* sub in s
Contains(sub, s) ==
    \E i \in 0..Len(s) :
        i + Len(sub) <= Len(s) /\ SubSeq(s, i + 1, i + Len(sub)) = sub

\* [f(x) for x in s]
StripAll(s) == [i \in 1..Len(s) |-> Strip(s[i])]

NormAll(s) == [i \in 1..Len(s) |-> Lower(Strip(s[i]))]

---------------------------------------------------------------------------
(* networkx.Graph: nodes in insertion order, an attribute dict per node,  *)
(* neighbours in insertion order.                                         *)

EmptyGraph == [nodes |-> <<>>, attrs |-> EmptyDict, adj |-> EmptyDict]

InGraph(g, n) == n \in Range(g.nodes)

\* G.add_node(n, **new): a new node gets the attributes, an existing node
\* has its attribute dict updated (new values overwrite old ones)
AddNode(g, n, new) ==
    IF InGraph(g, n)
    THEN [g EXCEPT !.attrs = [m \in DOMAIN g.attrs |->
                                 IF m = n THEN new @@ g.attrs[m] ELSE g.attrs[m]]]
    ELSE [nodes |-> Append(g.nodes, n),
          attrs |-> (n :> new) @@ g.attrs,
          adj   |-> (n :> <<>>) @@ g.adj]

\* always appends: a multigraph-like adjacency
LinkDup(adj, u, v) ==
    [m \in DOMAIN adj |-> IF m = u THEN Append(adj[m], v) ELSE adj[m]]

\* adj[u][v] = {}: v is appended to u's neighbours unless already there
Link(adj, u, v) ==
    [m \in DOMAIN adj |->
        IF m = u /\ v \notin Range(adj[m]) THEN Append(adj[m], v) ELSE adj[m]]

\* G.add_edge(u, v): missing end points are created bare, then the edge is
\* recorded in both directions
AddEdge(g, u, v) ==
    LET g1 == IF InGraph(g, u) THEN g ELSE AddNode(g, u, EmptyDict)
        g2 == IF InGraph(g1, v) THEN g1 ELSE AddNode(g1, v, EmptyDict)
    IN  [g2 EXCEPT !.adj = Link(Link(g2.adj, u, v), v, u)]

\* G.nodes[n].get("type")
TypeOf(g, n) == Get(g.attrs[n], "type", None)

\* G.neighbors(n)
Neighbors(g, n) == g.adj[n]

\* [x for x in s if P(x)]
RECURSIVE Filter(_, _)
Filter(s, keep) ==
    IF s = <<>> THEN <<>>
    ELSE (IF Head(s) \in keep THEN <<Head(s)>> ELSE <<>>) \o Filter(Tail(s), keep)

TypedNodes(g, t) == {n \in Range(g.nodes) : TypeOf(g, n) = t}

---------------------------------------------------------------------------
(* Inputs: the catalog (data) and the association rows (benefit_data) *)

CategoryKeys == {<<"c">>, <<"A", " ">>}

TeaKeys == {<<"b">>}

TeaNames == {<<"a", "B">>}

Caffeines == {<<"m">>}

TasteDescriptions == {<<"A", ",">>}

BenefitLists == {<< <<" ", "D">> >>}

TeaTypeFields == {<<"e", ",", "D">>}

HealthBenefitFields == {<<"d", ",", "f", ",">>}

\* a dict with any subset of the keys of full
SubDicts(full) == {[k \in D |-> full[k]] : D \in SUBSET (DOMAIN full)}

\* a catalog tea: its caffeine level, and any of the optional keys name,
\* tasteDescription and healthBenefits (origin is left to its default)
TeaDatas ==
    UNION {{[caffeine |-> c] @@ d :
               d \in SubDicts([name |-> n, tasteDescription |-> t,
                               healthBenefits |-> h])} :
           n \in TeaNames, c \in Caffeines, t \in TasteDescriptions,
           h \in BenefitLists}

\* the items of a "types" dict: distinct keys, in file order
SeqsUpTo(S, n) == UNION {[1..k -> S] : k \in 0..n}

DistinctKeys(s) ==
    \A i, j \in 1..Len(s) : i # j => s[i].key # s[j].key

TypesDicts ==
    {s \in SeqsUpTo([key : TeaKeys, tea_data : TeaDatas], MaxTeasPerCategory) :
        DistinctKeys(s)}

Infos == {EmptyDict} \cup {[types |-> t] : t \in TypesDicts}

Catalogs ==
    {s \in SeqsUpTo([key : CategoryKeys, info : Infos], MaxCategories) :
        DistinctKeys(s)}

Rows ==
    UNION {SubDicts(("Tea Type" :> t) @@ ("Health Benefit" :> h)) :
           t \in TeaTypeFields, h \in HealthBenefitFields}

BenefitDatas == SeqsUpTo(Rows, MaxRows)

---------------------------------------------------------------------------
(* build_graph, one action per loop of the function.  pc is the loop the  *)
(* call is in; loop holds the loop variables.                             *)

InitLoop ==
    [ci |-> 1, category_name |-> None, ti |-> 1, tea_name |-> None,
     flavors |-> <<>>, benefits |-> <<>>, ri |-> 1, teas |-> <<>>,
     row_benefits |-> <<>>, bq |-> <<>>]

NoResult == [op |-> "none"]

Init ==
    /\ data \in Catalogs
    /\ benefit_data \in BenefitDatas
    /\ G = EmptyGraph
    /\ pc = "category"
    /\ loop = InitLoop
    /\ round = 1
    /\ G1 = EmptyGraph
    /\ res = NoResult

\* for category, info in data.items(): ... add_node(category_name)
CategoryLoop ==
    /\ pc = "category"
    /\ IF loop.ci > Len(data)
       THEN /\ pc' = "row"
            /\ loop' = [loop EXCEPT !.ri = 1]
            /\ G' = G
       ELSE LET category == data[loop.ci].key
                info == data[loop.ci].info
                category_name == Lower(Strip(category))
            IN  IF "types" \in DOMAIN info
                THEN /\ G' = AddNode(G, category_name, [type |-> TypeCategory])
                     /\ pc' = "tea"
                     /\ loop' = [loop EXCEPT !.category_name = category_name,
                                             !.ti = 1]
                ELSE /\ G' = G
                     /\ pc' = pc
                     /\ loop' = [loop EXCEPT !.ci = @ + 1]
    /\ UNCHANGED <<data, benefit_data, round, G1, res>>

\* for tea_key, tea_data in info["types"].items(): the tea node, its
\* category edge, and the flavors and benefits the inner loops will visit
TeaLoop ==
    /\ pc = "tea"
    /\ LET types == data[loop.ci].info.types
       IN  IF loop.ti > Len(types)
           THEN /\ pc' = "category"
                /\ loop' = [loop EXCEPT !.ci = @ + 1]
                /\ G' = G
           ELSE LET tea_key == types[loop.ti].key
                    tea_data == types[loop.ti].tea_data
                    tea_name == Lower(Strip(Get(tea_data, "name", tea_key)))
                    g1 == AddNode(G, tea_name,
                              [type     |-> TypeTea,
                               caffeine |-> Get(tea_data, "caffeine", NA),
                               origin   |-> Get(tea_data, "origin", Unknown),
                               taste    |-> Get(tea_data, "tasteDescription", NA)])
                    taste == Get(tea_data, "tasteDescription", None)
                IN  /\ G' = AddEdge(g1, loop.category_name, tea_name)
                    /\ pc' = "flavor"
                    /\ loop' = [loop EXCEPT
                           !.tea_name = tea_name,
                           !.flavors = IF Truthy(taste)
                                       THEN StripAll(Split(taste)) ELSE <<>>,
                           !.benefits = Get(tea_data, "healthBenefits", <<>>)]
    /\ UNCHANGED <<data, benefit_data, round, G1, res>>

\* for flavor in [f.strip() for f in taste.split(",")]
FlavorLoop ==
    /\ pc = "flavor"
    /\ IF loop.flavors = <<>>
       THEN /\ pc' = "benefit"
            /\ UNCHANGED <<G, loop>>
       ELSE LET flavor == Head(loop.flavors)
            IN  /\ G' = AddEdge(AddNode(G, flavor, [type |-> TypeTaste]),
                                loop.tea_name, flavor)
                /\ loop' = [loop EXCEPT !.flavors = Tail(@)]
                /\ pc' = pc
    /\ UNCHANGED <<data, benefit_data, round, G1, res>>

\* for benefit in tea_data.get("healthBenefits", [])
BenefitLoop ==
    /\ pc = "benefit"
    /\ IF loop.benefits = <<>>
       THEN /\ pc' = "tea"
            /\ loop' = [loop EXCEPT !.ti = @ + 1]
            /\ G' = G
       ELSE LET benefit == Lower(Strip(Head(loop.benefits)))
            IN  /\ G' = AddEdge(AddNode(G, benefit, [type |-> TypeHealth]),
                                loop.tea_name, benefit)
                /\ loop' = [loop EXCEPT !.benefits = Tail(@)]
                /\ pc' = pc
    /\ UNCHANGED <<data, benefit_data, round, G1, res>>

\* for row in benefit_data: row["Tea Type"] and row["Health Benefit"] raise
\* KeyError on a row without the key, which ends build_graph
RowLoop ==
    /\ pc = "row"
    /\ IF loop.ri > Len(benefit_data)
       THEN /\ pc' = "done"
            /\ loop' = loop
       ELSE LET row == benefit_data[loop.ri]
            IN  IF "Tea Type" \notin DOMAIN row \/ "Health Benefit" \notin DOMAIN row
                THEN /\ pc' = "raised"
                     /\ loop' = loop
                ELSE /\ pc' = "row_tea"
                     /\ loop' = [loop EXCEPT
                            !.teas = NormAll(Split(row["Tea Type"])),
                            !.row_benefits = NormAll(Split(row["Health Benefit"]))]
    /\ UNCHANGED <<data, benefit_data, G, round, G1, res>>

\* for tea in teas: add_node(tea, type="tea")
RowTeaLoop ==
    /\ pc = "row_tea"
    /\ IF loop.teas = <<>>
       THEN /\ pc' = "row"
            /\ loop' = [loop EXCEPT !.ri = @ + 1]
            /\ G' = G
       ELSE /\ G' = AddNode(G, Head(loop.teas), [type |-> TypeTea])
            /\ pc' = "row_benefit"
            /\ loop' = [loop EXCEPT !.bq = loop.row_benefits]
    /\ UNCHANGED <<data, benefit_data, round, G1, res>>

\* for benefit in benefits: add_node(benefit, type="health"); add_edge
RowBenefitLoop ==
    /\ pc = "row_benefit"
    /\ IF loop.bq = <<>>
       THEN /\ pc' = "row_tea"
            /\ loop' = [loop EXCEPT !.teas = Tail(@)]
            /\ G' = G
       ELSE LET tea == Head(loop.teas)
                benefit == Head(loop.bq)
            IN  /\ G' = AddEdge(AddNode(G, benefit, [type |-> TypeHealth]),
                                tea, benefit)
                /\ loop' = [loop EXCEPT !.bq = Tail(@)]
                /\ pc' = pc
    /\ UNCHANGED <<data, benefit_data, round, G1, res>>

\* build_graph called again on the same graph with the same arguments
Rebuild ==
    /\ pc \in {"done", "raised"}
    /\ round = 1
    /\ res = NoResult
    /\ round' = 2
    /\ G1' = G
    /\ pc' = "category"
    /\ loop' = InitLoop
    /\ UNCHANGED <<data, benefit_data, G, res>>

---------------------------------------------------------------------------
(* The node resolvers *)

\* the first element of a list, None for the empty list
First(s) == IF s = <<>> THEN None ELSE Head(s)

\* the second scan alone: the first node whose key contains the keyword
SubstringOnly(g, keyword) ==
    First(Filter(g.nodes, {n \in Range(g.nodes) : Contains(Lower(keyword), Lower(n))}))

\* find_closest_node: the first node whose lower-cased key equals the
\* lower-cased keyword, else the first whose key contains it, else None
find_closest_node(g, keyword) ==
    LET kw == Lower(keyword)
        exact == Filter(g.nodes, {n \in Range(g.nodes) : kw = Lower(n)})
        partial == Filter(g.nodes, {n \in Range(g.nodes) : Contains(kw, Lower(n))})
    IN  IF exact # <<>> THEN Head(exact) ELSE First(partial)

\* find_closest_tea_node: the first tea or category node whose key (as
\* stored) contains the lower-cased name
find_closest_tea_node(g, tea_name) ==
    LET tea_name_lower == Lower(tea_name)
    IN  First(Filter(g.nodes,
              {n \in Range(g.nodes) :
                  /\ Contains(tea_name_lower, n)
                  /\ TypeOf(g, n) \in {TypeTea, TypeCategory}}))

---------------------------------------------------------------------------
(* nx.shortest_path on the unweighted graph *)

NeighborSet(g, S) == UNION {Range(g.adj[n]) : n \in S}

\* breadth-first search: the number of nodes on a shortest path from the
\* frontier (at that many nodes from the source) to target, 0 if unreachable
RECURSIVE BFS(_, _, _, _, _)
BFS(g, frontier, visited, target, len) ==
    IF target \in frontier THEN len
    ELSE LET next == NeighborSet(g, frontier) \ visited
         IN  IF next = {} THEN 0
             ELSE BFS(g, next, visited \cup next, target, len + 1)

\* len(nx.shortest_path(G, source, target)); 0 stands for NetworkXNoPath
PathLen(g, source, target) == BFS(g, {source}, {source}, target, 1)

---------------------------------------------------------------------------
(* recommend_tea_for_health *)

\* the list left in discovery order
Unsorted(g, source, teas) == teas

\* recommended_teas.sort(key=lambda x: len(x[1])): a stable sort of the
\* teas by the length of their path from source
SortByPathLen(g, source, teas) ==
    LET bucket[k \in 0..(Len(g.nodes) + 1)] ==
            IF k = 0 THEN <<>>
            ELSE bucket[k - 1] \o
                 Filter(teas, {t \in Range(teas) : PathLen(g, source, t) = k})
    IN  bucket[Len(g.nodes) + 1]

\* s[:n] for n >= 0
Prefix(s, n) == SubSeq(s, 1, IF n < Len(s) THEN n ELSE Len(s))

recommend_tea_for_health(g, health_concern, max_results) ==
    LET health_node == find_closest_node(g, health_concern)
    IN  IF ~Truthy(health_node) \/ TypeOf(g, health_node) # TypeHealth
        THEN <<>>
        ELSE LET recommended_teas ==
                     Filter(g.nodes,
                            {n \in Range(g.nodes) :
                                /\ TypeOf(g, n) = TypeTea
                                /\ PathLen(g, health_node, n) > 0})
             IN  Prefix(SortByPathLen(g, health_node, recommended_teas),
                        max_results)

---------------------------------------------------------------------------
(* find_teas: the returned list is built from a set, so it is modelled as *)
(* the set of its elements.                                                *)

\* {tea for tea in G.neighbors(concern_node) if type == "tea"}
ConnectedTeas(g, concern_node) ==
    {tea \in Range(Neighbors(g, concern_node)) : TypeOf(g, tea) = TypeTea}

\* tea_sets: one set per concern that resolves to a health node
RECURSIVE TeaSets(_, _)
TeaSets(g, health_concerns) ==
    IF health_concerns = <<>> THEN <<>>
    ELSE LET concern_node == find_closest_node(g, Head(health_concerns))
         IN  (IF Truthy(concern_node) /\ TypeOf(g, concern_node) = TypeHealth
              THEN <<ConnectedTeas(g, concern_node)>>
              ELSE <<>>) \o TeaSets(g, Tail(health_concerns))

\* set.intersection(*tea_sets) for a non-empty list
Intersection(tea_sets) ==
    {t \in tea_sets[1] : \A i \in 1..Len(tea_sets) : t \in tea_sets[i]}

\* the filter without the fallback
NoFallback(common_teas, matching_teas) == matching_teas

\* return matching_teas if matching_teas else list(common_teas)
TasteFallback(common_teas, matching_teas) ==
    IF matching_teas # {} THEN matching_teas ELSE common_teas

find_teas(g, health_concerns, taste_preference) ==
    LET tea_sets == TeaSets(g, health_concerns)
    IN  IF tea_sets = <<>> THEN {}
        ELSE LET common_teas == Intersection(tea_sets)
                 matching_teas ==
                     {tea \in common_teas :
                         Contains(Lower(taste_preference),
                                  Lower(Get(g.attrs[tea], "taste", <<>>)))}
             IN  IF common_teas = {} THEN {}
                 ELSE IF Truthy(taste_preference)
                      THEN TasteFallback(common_teas, matching_teas)
                      ELSE common_teas

---------------------------------------------------------------------------
(* find_shortest_paths and get_teas_from_category *)

get_teas_from_category(g, category_name) ==
    LET category_node == find_closest_node(g, category_name)
    IN  IF Truthy(category_node) /\ g.attrs[category_node]["type"] = TypeCategory
        THEN Filter(Neighbors(g, category_node),
                    {n \in Range(Neighbors(g, category_node)) :
                        TypeOf(g, n) = TypeTea})
        ELSE <<>>

\* one iteration of `for tea in tea_options`: what is printed for the option
PathReport(g, health_concern_node, tea) ==
    LET tea_node == find_closest_tea_node(g, tea)
        is_category == Truthy(tea_node) /\ TypeOf(g, tea_node) = TypeCategory
        tea_nodes == IF is_category
                     THEN get_teas_from_category(g, tea_node)
                     ELSE <<tea_node>>
        reached == Filter(tea_nodes,
                        {t \in Range(tea_nodes) :
                            /\ InGraph(g, t)
                            /\ PathLen(g, health_concern_node, t) > 0})
    IN  [option |-> tea,
         tea_node |-> tea_node,
         candidates |-> tea_nodes,
         paths |-> reached,
         printed |-> IF is_category /\ tea_nodes = <<>> THEN "no teas in category"
                     ELSE IF reached # <<>> THEN "shortest path"
                     ELSE "no path"]

\* the report of the whole call: "not found" and no paths when the concern
\* resolves to nothing
find_shortest_paths(g, health_concern, tea_options) ==
    LET health_concern_node == find_closest_node(g, health_concern)
    IN  IF ~Truthy(health_concern_node)
        THEN [not_found |-> TRUE, source |-> health_concern_node, reports |-> <<>>]
        ELSE [not_found |-> FALSE, source |-> health_concern_node,
              reports |-> [i \in 1..Len(tea_options) |->
                              PathReport(g, health_concern_node, tea_options[i])]]

---------------------------------------------------------------------------
(* get_attribute *)

get_attribute(g, tea_node, attribute) ==
    IF ~InGraph(g, tea_node) THEN NodeNotFound
    ELSE Get(g.attrs[tea_node], attribute, AttributeNotFound)

---------------------------------------------------------------------------
(* compare_teas: the returned tuple is the sequence of its two values,    *)
(* and a bare `return` (nothing) is the empty sequence.                   *)

compare_teas(g, tea1, tea2, attribute) ==
    LET tea1_node == find_closest_tea_node(g, tea1)
        tea2_node == find_closest_tea_node(g, tea2)
        value1 == get_attribute(g, tea1_node, attribute)
        value2 == get_attribute(g, tea2_node, attribute)
    IN  IF ~Truthy(tea1_node) \/ ~Truthy(tea2_node) THEN <<>>
        ELSE IF value1 = NA \/ value2 = NA THEN <<>>
        ELSE <<value1, value2>>

---------------------------------------------------------------------------
(* The queries, asked of the built graph from the menu loop of main():   *)
(* res is the answer on display, NoResult while the menu waits.           *)

ResolveKeywords == {<<"b">>, <<"D">>, <<"a">>, <<>>, <<"x">>}

ConcernKeywords == {<<"D">>, <<>>, <<"b">>, <<"x">>}

FindTeasConcerns == {<<"D">>, <<"f">>, <<>>}

TastePreferences == {None, <<"A">>, <<"x">>}

TeaOptionKeywords == {<<"a">>, <<"B">>, <<"c">>, <<"x">>}

AttributeNodes == {<<"e">>, <<"d">>, <<"b">>, <<"x">>}

Attributes == {"caffeine", "taste", "origin"}

FindClosestNode ==
    /\ pc = "done"
    /\ res = NoResult
    /\ \E keyword \in ResolveKeywords :
          res' = [op |-> "find_closest_node", keyword |-> keyword,
                  out |-> find_closest_node(G, keyword)]
    /\ UNCHANGED <<data, benefit_data, G, pc, loop, round, G1>>

RecommendTeaForHealth ==
    /\ pc = "done"
    /\ res = NoResult
    /\ \E health_concern \in ConcernKeywords, max_results \in 0..MaxResultsBound :
          res' = [op |-> "recommend_tea_for_health",
                  health_concern |-> health_concern,
                  max_results |-> max_results,
                  out |-> recommend_tea_for_health(G, health_concern, max_results)]
    /\ UNCHANGED <<data, benefit_data, G, pc, loop, round, G1>>

FindTeas ==
    /\ pc = "done"
    /\ res = NoResult
    /\ \E health_concerns \in SeqsUpTo(FindTeasConcerns, MaxConcerns),
          taste_preference \in TastePreferences :
          res' = [op |-> "find_teas",
                  health_concerns |-> health_concerns,
                  taste_preference |-> taste_preference,
                  out |-> find_teas(G, health_concerns, taste_preference)]
    /\ UNCHANGED <<data, benefit_data, G, pc, loop, round, G1>>

FindShortestPaths ==
    /\ pc = "done"
    /\ res = NoResult
    /\ \E health_concern \in ConcernKeywords,
          tea_options \in SeqsUpTo(TeaOptionKeywords, MaxTeaOptions) \ {<<>>} :
          res' = [op |-> "find_shortest_paths",
                  health_concern |-> health_concern,
                  tea_options |-> tea_options,
                  out |-> find_shortest_paths(G, health_concern, tea_options)]
    /\ UNCHANGED <<data, benefit_data, G, pc, loop, round, G1>>

CompareKeywords == {<<"b">>, <<"e">>, <<>>, <<"x">>}

CompareTeas ==
    /\ pc = "done"
    /\ res = NoResult
    /\ \E tea1 \in CompareKeywords, tea2 \in CompareKeywords,
          attribute \in Attributes :
          res' = [op |-> "compare_teas", tea1 |-> tea1, tea2 |-> tea2,
                  attribute |-> attribute,
                  out |-> compare_teas(G, tea1, tea2, attribute)]
    /\ UNCHANGED <<data, benefit_data, G, pc, loop, round, G1>>

GetAttribute ==
    /\ pc = "done"
    /\ res = NoResult
    /\ \E tea_node \in AttributeNodes, attribute \in Attributes :
          res' = [op |-> "get_attribute", tea_node |-> tea_node,
                  attribute |-> attribute,
                  out |-> get_attribute(G, tea_node, attribute)]
    /\ UNCHANGED <<data, benefit_data, G, pc, loop, round, G1>>

\* back to the menu
Prompt ==
    /\ res # NoResult
    /\ res' = NoResult
    /\ UNCHANGED <<data, benefit_data, G, pc, loop, round, G1>>

Build ==
    \/ CategoryLoop
    \/ TeaLoop
    \/ FlavorLoop
    \/ BenefitLoop
    \/ RowLoop
    \/ RowTeaLoop
    \/ RowBenefitLoop

\* build_graph, possibly twice, and attribute look-ups
Next ==
    \/ Build
    \/ Rebuild
    \/ GetAttribute
    \/ Prompt

Spec == Init /\ [][Next]_vars

NextResolve ==
    \/ Build
    \/ FindClosestNode
    \/ Prompt

SpecResolve == Init /\ [][NextResolve]_vars

NextFindTeas ==
    \/ Build
    \/ FindTeas
    \/ Prompt

SpecFindTeas == Init /\ [][NextFindTeas]_vars

NextRecommend ==
    \/ Build
    \/ RecommendTeaForHealth
    \/ Prompt

SpecRecommend == Init /\ [][NextRecommend]_vars

NextPaths ==
    \/ Build
    \/ FindShortestPaths
    \/ Prompt

SpecPaths == Init /\ [][NextPaths]_vars

\* association rows whose tea list starts with a comma, next to the others
LeadingCommaTeaTypes == {<<",", "e">>}

PlainBenefits == {<<"d">>}

RowsCompare ==
    Rows \cup {("Tea Type" :> t) @@ ("Health Benefit" :> h) :
                  t \in LeadingCommaTeaTypes, h \in PlainBenefits}

InitCompare ==
    /\ data \in Catalogs
    /\ benefit_data \in SeqsUpTo(RowsCompare, MaxRows)
    /\ G = EmptyGraph
    /\ pc = "category"
    /\ loop = InitLoop
    /\ round = 1
    /\ G1 = EmptyGraph
    /\ res = NoResult

NextCompare ==
    \/ Build
    \/ CompareTeas
    \/ Prompt

SpecCompare == InitCompare /\ [][NextCompare]_vars

---------------------------------------------------------------------------
(* Vocabulary of the properties *)

Nodes == Range(G.nodes)

\* the position of a node in the graph's iteration order
Pos(n) == CHOOSE i \in 1..Len(G.nodes) : G.nodes[i] = n

Adjacent(u, v) == v \in Range(G.adj[u])

\* the nodes within k edges of s
RECURSIVE Ball(_, _)
Ball(s, k) ==
    IF k = 0 THEN {s}
    ELSE LET B == Ball(s, k - 1)
         IN  B \cup {n \in Nodes : \E m \in B : Adjacent(m, n)}

Reachable(s, t) == t \in Ball(s, Len(G.nodes))

\* the number of edges on a shortest path, for a reachable t
Distance(s, t) ==
    CHOOSE k \in 0..Len(G.nodes) :
        t \in Ball(s, k) /\ \A j \in 0..(k - 1) : t \notin Ball(s, j)

\* what a keyword resolves to, and whether that is a health node
ResolvesToHealth(keyword) ==
    /\ find_closest_node(G, keyword) # None
    /\ TypeOf(G, find_closest_node(G, keyword)) = TypeHealth

TasteOf(tea) == Get(G.attrs[tea], "taste", <<>>)

---------------------------------------------------------------------------
(* C1: find_teas without a taste preference returns exactly the tea nodes  *)
(* that are direct neighbours of every concern resolving to a health node; *)
(* concerns that resolve to nothing or to another type are dropped, and    *)
(* the result is empty when no concern resolves.                           *)
C1_FindTeasIsNeighbourIntersection ==
    (res.op = "find_teas" /\ res.taste_preference = None) =>
        LET resolved == {find_closest_node(G, c) :
                            c \in {k \in Range(res.health_concerns) :
                                      ResolvesToHealth(k)}}
        IN  res.out = IF resolved = {} THEN {}
                      ELSE {t \in Nodes :
                               /\ TypeOf(G, t) = TypeTea
                               /\ \A h \in resolved : Adjacent(h, t)}

---------------------------------------------------------------------------
(* C2: with a taste preference given, find_teas returns the whole         *)
(* intersection when no tea of it has the preference in its taste         *)
(* (case-insensitive substring), and exactly the matching teas otherwise. *)
C2_TasteFilterFallsBack ==
    (res.op = "find_teas" /\ res.taste_preference # None) =>
        LET common == find_teas(G, res.health_concerns, None)
            matching == {t \in common :
                            Contains(Lower(res.taste_preference),
                                     Lower(TasteOf(t)))}
        IN  /\ matching = {} => res.out = common
            /\ matching # {} => res.out = matching

\* two teas found, none with the preferred taste, both returned
C2_Witness ==
    /\ res.op = "find_teas"
    /\ res.taste_preference = <<"x">>
    /\ Cardinality(find_teas(G, res.health_concerns, None)) >= 2
    /\ \A t \in find_teas(G, res.health_concerns, None) :
          ~Contains(<<"x">>, Lower(TasteOf(t)))
    /\ res.out = find_teas(G, res.health_concerns, None)

---------------------------------------------------------------------------
(* C3: recommend_tea_for_health returns tea nodes reachable from the      *)
(* resolved health node, in non-decreasing order of shortest-path length, *)
(* at most max_results of them, and nothing when the concern resolves to  *)
(* no node, to a node of another type, or to a health node from which no  *)
(* tea is reachable.                                                      *)
C3_RecommendSortedByPathLength ==
    (res.op = "recommend_tea_for_health") =>
        LET h == find_closest_node(G, res.health_concern)
            out == res.out
        IN  /\ Len(out) <= res.max_results
            /\ \A i \in 1..Len(out) :
                  /\ TypeOf(G, out[i]) = TypeTea
                  /\ Reachable(h, out[i])
            /\ \A i, j \in 1..Len(out) :
                  i < j => /\ out[i] # out[j]
                           /\ Distance(h, out[i]) <= Distance(h, out[j])
            /\ (\/ h = None
                \/ TypeOf(G, h) # TypeHealth
                \/ \A t \in Nodes : TypeOf(G, t) = TypeTea => ~Reachable(h, t))
               => out = <<>>

\* two teas at different distances, the nearer one later in node order
C3_Witness ==
    /\ res.op = "recommend_tea_for_health"
    /\ Len(res.out) = 2
    /\ LET h == find_closest_node(G, res.health_concern)
       IN  /\ Distance(h, res.out[1]) < Distance(h, res.out[2])
           /\ Pos(res.out[1]) > Pos(res.out[2])

---------------------------------------------------------------------------
(* C4: find_closest_node returns the first node whose lower-cased key     *)
(* equals the lower-cased keyword whenever there is one, whatever nodes   *)
(* contain the keyword; only without an exact match does it return the    *)
(* first node containing the keyword, and None when no node contains it.  *)
C4_ExactMatchWins ==
    (res.op = "find_closest_node") =>
        LET kw == Lower(res.keyword)
            exact == {n \in Nodes : Lower(n) = kw}
            partial == {n \in Nodes : Contains(kw, Lower(n))}
            from == IF exact # {} THEN exact ELSE partial
        IN  IF from = {} THEN res.out = None
            ELSE /\ res.out \in from
                 /\ \A n \in from : Pos(res.out) <= Pos(n)

\* an exact match returned although an earlier node contains the keyword
C4_Witness ==
    /\ res.op = "find_closest_node"
    /\ res.out # None
    /\ Lower(res.out) = Lower(res.keyword)
    /\ \E n \in Nodes :
          /\ Pos(n) < Pos(res.out)
          /\ Lower(n) # Lower(res.keyword)
          /\ Contains(Lower(res.keyword), Lower(n))

---------------------------------------------------------------------------
(* C5: during build_graph a node's type never changes once assigned: no   *)
(* step of the build changes the type of a node already in the graph.     *)
C5_TypeNeverChanges ==
    [][\A n \in Nodes : TypeOf(G', n) = TypeOf(G, n)]_vars

---------------------------------------------------------------------------
(* C6: a second build_graph call with the same arguments leaves the graph *)
(* as the first call left it: same nodes, same edges with none            *)
(* duplicated, same attributes (type included) on every node.             *)
EdgeSet(g) == {<<u, v>> \in Range(g.nodes) \X Range(g.nodes) : v \in Range(g.adj[u])}

NoDuplicates(s) == \A i, j \in 1..Len(s) : i # j => s[i] # s[j]

C6_BuildIsIdempotent ==
    (round = 2 /\ pc \in {"done", "raised"}) =>
        /\ Range(G.nodes) = Range(G1.nodes)
        /\ NoDuplicates(G.nodes)
        /\ EdgeSet(G) = EdgeSet(G1)
        /\ \A n \in Nodes : NoDuplicates(G.adj[n])
        /\ \A n \in Nodes : G.attrs[n] = G1.attrs[n]

\* a second build completed on a graph with catalog teas, tastes, benefits
\* and association edges
C6_Witness ==
    /\ round = 2
    /\ pc = "done"
    /\ G = G1
    /\ \A t \in {TypeCategory, TypeTea, TypeTaste, TypeHealth} :
          TypedNodes(G, t) # {}
    /\ Len(benefit_data) > 0
    /\ Cardinality(EdgeSet(G)) >= 8

---------------------------------------------------------------------------
(* C7: build_graph skips a record that lacks an expected key and still    *)
(* adds the nodes and edges of every well-formed association row, so when *)
(* the call is over each such row's teas are joined to its benefits.      *)
WellFormed(row) == "Tea Type" \in DOMAIN row /\ "Health Benefit" \in DOMAIN row

C7_MalformedRowIsSkipped ==
    (pc \in {"done", "raised"}) =>
        \A i \in 1..Len(benefit_data) :
            WellFormed(benefit_data[i]) =>
                \A tea \in Range(NormAll(Split(benefit_data[i]["Tea Type"]))),
                   benefit \in Range(NormAll(Split(benefit_data[i]["Health Benefit"]))) :
                    /\ tea \in Nodes
                    /\ benefit \in Nodes
                    /\ Adjacent(tea, benefit)

---------------------------------------------------------------------------
(* C8: a tea named only in an association row ends the build with type    *)
(* tea, and get_attribute gives "Attribute not found" for its caffeine;   *)
(* get_attribute on a key that is not in the graph gives "Node not found".*)
\* the keys the catalog puts in the graph
CatalogKeys ==
    UNION {{Lower(Strip(data[i].key))} \cup
           (IF "types" \in DOMAIN data[i].info
            THEN UNION {LET d == data[i].info.types[j].tea_data
                            k == data[i].info.types[j].key
                        IN  {Lower(Strip(Get(d, "name", k)))}
                            \cup (IF Truthy(Get(d, "tasteDescription", None))
                                  THEN Range(StripAll(Split(d.tasteDescription)))
                                  ELSE {})
                            \cup Range(NormAll(Get(d, "healthBenefits", <<>>))) :
                        j \in 1..Len(data[i].info.types)}
            ELSE {}) :
           i \in 1..Len(data)}

\* the tea names of the well-formed association rows
AssociationTeas ==
    UNION {Range(NormAll(Split(benefit_data[i]["Tea Type"]))) :
           i \in {k \in 1..Len(benefit_data) : WellFormed(benefit_data[k])}}

C8_AssociationOnlyTea ==
    (res.op = "get_attribute" /\ res.attribute = "caffeine") =>
        /\ (res.tea_node \in AssociationTeas \ CatalogKeys) =>
              /\ TypeOf(G, res.tea_node) = TypeTea
              /\ res.out = AttributeNotFound
        /\ (res.tea_node \notin Nodes) => res.out = NodeNotFound

---------------------------------------------------------------------------
(* C9: when the tea keyword of find_shortest_paths resolves to a category *)
(* node, the candidates are exactly the tea neighbours of that node, and  *)
(* "no path" is reported only if none of them can be reached.             *)
C9_CategoryExpandsToItsTeas ==
    (res.op = "find_shortest_paths" /\ ~res.out.not_found) =>
        \A i \in 1..Len(res.out.reports) :
            LET r == res.out.reports[i]
                teas == {t \in Nodes : TypeOf(G, t) = TypeTea /\ Adjacent(r.tea_node, t)}
            IN  (r.tea_node # None /\ TypeOf(G, r.tea_node) = TypeCategory) =>
                    /\ Range(r.candidates) = teas
                    /\ Range(r.paths) = {t \in teas : Reachable(res.out.source, t)}
                    /\ (r.printed = "no path") =>
                           \A t \in teas : ~Reachable(res.out.source, t)
                    /\ (r.printed = "shortest path") <=>
                           \E t \in teas : Reachable(res.out.source, t)

---------------------------------------------------------------------------
(* C10: find_shortest_paths reports "not found" and computes no path      *)
(* unless the concern keyword resolves to a node of type health.          *)
C10_ConcernMustBeHealth ==
    (res.op = "find_shortest_paths") =>
        LET h == find_closest_node(G, res.health_concern)
        IN  (h = None \/ TypeOf(G, h) # TypeHealth) =>
                /\ res.out.not_found
                /\ res.out.reports = <<>>

---------------------------------------------------------------------------
(* C11: compare_teas returns nothing when a keyword resolves to no tea or *)
(* category node, nothing when a looked-up value is "N/A", and otherwise  *)
(* the pair of the two nodes' values, "Attribute not found" standing for  *)
(* an attribute the node lacks.                                           *)
TeaOrCategoryMatches(keyword) ==
    {n \in Nodes : /\ TypeOf(G, n) \in {TypeTea, TypeCategory}
                   /\ Contains(Lower(keyword), n)}

\* the first tea or category node matching a keyword that matches some
ResolvedTea(keyword) ==
    CHOOSE n \in TeaOrCategoryMatches(keyword) :
        \A m \in TeaOrCategoryMatches(keyword) : Pos(n) <= Pos(m)

ValueOf(n, attribute) ==
    IF attribute \in DOMAIN G.attrs[n] THEN G.attrs[n][attribute]
    ELSE AttributeNotFound

C11_CompareReturnsPair ==
    (res.op = "compare_teas") =>
        IF TeaOrCategoryMatches(res.tea1) = {} \/ TeaOrCategoryMatches(res.tea2) = {}
        THEN res.out = <<>>
        ELSE LET value1 == ValueOf(ResolvedTea(res.tea1), res.attribute)
                 value2 == ValueOf(ResolvedTea(res.tea2), res.attribute)
             IN  IF value1 = NA \/ value2 = NA
                 THEN res.out = <<>>
                 ELSE res.out = <<value1, value2>>

---------------------------------------------------------------------------
(* C12: splitting a taste description never yields an empty-key node: no  *)
(* step of the flavor loop creates the node with the empty key, and none  *)
(* gives a node an edge to it.                                            *)
C12_EmptyTasteTokenIsSkipped ==
    [][pc = "flavor" =>
          /\ <<>> \in Range(G'.nodes) => <<>> \in Nodes
          /\ \A n \in Range(G'.nodes) :
                <<>> \in Range(G'.adj[n]) => (n \in Nodes /\ Adjacent(n, <<>>))]_vars

---------------------------------------------------------------------------
(* C13: when build_graph has returned, every edge joins a category and a  *)
(* tea, a tea and a taste, or a tea and a health node.                    *)
AllowedPairs ==
    {{TypeCategory, TypeTea}, {TypeTea, TypeTaste}, {TypeTea, TypeHealth}}

C13_EdgesJoinAllowedTypes ==
    (pc = "done") =>
        \A edge \in EdgeSet(G) :
            {TypeOf(G, edge[1]), TypeOf(G, edge[2])} \in AllowedPairs

---------------------------------------------------------------------------
(* C14: every node key of the graph is trimmed and lower-cased, whatever  *)
(* the type of the node.                                                  *)
C14_KeysAreNormalized ==
    \A n \in Nodes : n = Lower(Strip(n))

===========================================================================
